---- MODULE Spec2Model ----
(***************************************************************************)
(* A model of mkvmux.py: the file-name parser, the cover resolver and its  *)
(* provider chain, the container mutator (mux_movie) and the per-file      *)
(* orchestrator with the directory traversal.                              *)
(*                                                                         *)
(* Text is modelled as a sequence of one-character strings, so that the    *)
(* regular-expression searches, slices, splits and joins of the source are *)
(* computed character by character.  Indices that the source keeps         *)
(* (year_start_idx, year_end_idx) stay 0-based as in Python.               *)
(***************************************************************************)
EXTENDS Naturals, Integers, Sequences, FiniteSets, TLC

(***************************************************************************)
(* Text helpers: Python's str operations used by the source.               *)
(***************************************************************************)

\* Python's None, where the source keeps an index or None in one variable
None == -1

Digits == {"0", "1", "2", "3", "4", "5", "6", "7", "8", "9"}

\* string.punctuation (the backquote cannot be written in a TLA+ string and
\* occurs in no modelled name)
punctuation ==
    {"!", "\"", "#", "$", "%", "&", "'", "(", ")", "*", "+", ",", "-", ".",
     "/", ":", ";", "<", "=", ">", "?", "@", "[", "\\", "]", "^", "_",
     "{", "|", "}", "~"}

\* the sequences over S of length at most n
BoundedSeq(S, n) == UNION {[1..k -> S] : k \in 0..n}

\* str.replace(old, new) for single characters
Replace(s, old, new) == [i \in 1..Len(s) |-> IF s[i] = old THEN new ELSE s[i]]

\* str.translate with a deletion table: drop every character of dels
DeleteChars(s, dels) ==
    LET keep(c) == c \notin dels
    IN  SelectSeq(s, keep)

\* str.split(c): the pieces between occurrences of c, empty pieces kept
RECURSIVE SplitChar(_, _)
SplitChar(s, c) ==
    IF \A i \in 1..Len(s) : s[i] # c
    THEN <<s>>
    ELSE LET k == CHOOSE i \in 1..Len(s) :
                      s[i] = c /\ \A j \in 1..(i - 1) : s[j] # c
         IN  <<SubSeq(s, 1, k - 1)>> \o SplitChar(SubSeq(s, k + 1, Len(s)), c)

\* str.split() without argument: split on whitespace, empty pieces dropped
SplitWs(s) ==
    LET nonEmpty(w) == w # <<>>
    IN  SelectSeq(SplitChar(s, " "), nonEmpty)

\* sep.join(words)
RECURSIVE Join(_, _)
Join(words, sep) ==
    IF words = <<>> THEN <<>>
    ELSE IF Len(words) = 1 THEN words[1]
    ELSE words[1] \o sep \o Join(Tail(words), sep)

\* str.endswith(suffix)
EndsWith(s, suffix) ==
    /\ Len(suffix) <= Len(s)
    /\ SubSeq(s, Len(s) - Len(suffix) + 1, Len(s)) = suffix

\* needle in s
Contains(s, needle) ==
    \E i \in 1..(Len(s) - Len(needle) + 1) :
        SubSeq(s, i, i + Len(needle) - 1) = needle

\* str.lower() on the letters the model uses
LowerChar(c) ==
    CASE c = "A" -> "a" [] c = "B" -> "b" [] c = "C" -> "c" [] c = "D" -> "d"
      [] c = "E" -> "e" [] c = "L" -> "l" [] c = "M" -> "m" [] c = "P" -> "p"
      [] c = "S" -> "s" [] c = "T" -> "t" [] c = "X" -> "x"
      [] OTHER -> c

Lower(s) == [i \in 1..Len(s) |-> LowerChar(s[i])]

\* path.replace('\\', '/').split('/')[-1]
LastSegment(path) ==
    LET parts == SplitChar(Replace(path, "\\", "/"), "/")
    IN  parts[Len(parts)]

(***************************************************************************)
(* get_movie_name_and_year                                                 *)
(***************************************************************************)

\* re.search(r'\(\d{4}\)', s): 0-based start of the leftmost match, or None
SearchParenYear(s) ==
    LET hit(i) == /\ i + 5 <= Len(s)
                  /\ s[i] = "("
                  /\ \A k \in 1..4 : s[i + k] \in Digits
                  /\ s[i + 5] = ")"
        hits == {i \in 1..Len(s) : hit(i)}
    IN  IF hits = {} THEN None
        ELSE (CHOOSE i \in hits : \A j \in hits : i <= j) - 1

\* re.search(r'\d{4}', s): 0-based start of the leftmost match, or None
SearchBareYear(s) ==
    LET hit(i) == /\ i + 3 <= Len(s)
                  /\ \A k \in 0..3 : s[i + k] \in Digits
        hits == {i \in 1..Len(s) : hit(i)}
    IN  IF hits = {} THEN None
        ELSE (CHOOSE i \in hits : \A j \in hits : i <= j) - 1

\* year_start_idx without the "+1" that steps over the opening parenthesis
YearStartIdxAtParen(file_name) ==
    LET m1 == SearchParenYear(file_name)
        m2 == SearchBareYear(file_name)
    IN  IF m1 # None THEN m1
        ELSE IF m2 # None THEN m2
        ELSE None

\* lines 203-211: year_start_idx as the source computes it (0-based, or None)
YearStartIdx(file_name) ==
    LET m1 == SearchParenYear(file_name)
        m2 == SearchBareYear(file_name)
    IN  IF m1 # None THEN m1 + 1
        ELSE IF m2 # None THEN m2
        ELSE None

\* lines 206, 211: year_end_idx (0-based, exclusive)
YearEndIdx(file_name) ==
    LET m1 == SearchParenYear(file_name)
        m2 == SearchBareYear(file_name)
    IN  IF m1 # None THEN (m1 + 6) - 1
        ELSE IF m2 # None THEN m2 + 4
        ELSE None

\* "is not None" in place of truthiness
TruthyNotNone(idx) == idx # None

\* line 212, "if year_start_idx:": Python truthiness of None and of an int
Truthy(idx) == idx # None /\ idx # 0

\* lines 215-218: the title normalisation
NormalizeTitle(t) ==
    LET t1 == Replace(t, ".", " ")
        t2 == DeleteChars(t1, punctuation \ {"-"})
        t3 == Replace(t2, "-", " ")
    IN  Join(SplitWs(t3), <<" ">>)

\* the result of a raised ValueError
ParseError == [ok |-> FALSE, title |-> <<>>, year |-> <<>>]

\* get_movie_name_and_year(movie_file): the (title, year) pair, or the error
get_movie_name_and_year(movie_file) ==
    LET file_name == LastSegment(movie_file)
        year_start_idx == YearStartIdx(file_name)
    IN  IF Truthy(year_start_idx)
        THEN [ok    |-> TRUE,
              title |-> NormalizeTitle(SubSeq(file_name, 1, year_start_idx)),
              year  |-> SubSeq(file_name, year_start_idx + 1,
                               YearEndIdx(file_name))]
        ELSE ParseError

(***************************************************************************)
(* Paths and the file system                                               *)
(*                                                                         *)
(* A file system is a function from the paths that exist to nodes.  A node *)
(* is a directory or a file; a file records whether it is a container the  *)
(* mkvmerge tool reads, its tracks, its attachment names, its title tag,   *)
(* whether it was written completely and whether it is writable.           *)
(***************************************************************************)

\* os.path.join(directory, file) and '{}/{}'.format(directory, file)
PathJoin(directory, file) == directory \o <<"/">> \o file

\* os.path.dirname(path)
Dirname(path) ==
    LET slashes == {i \in 1..Len(path) : path[i] = "/"}
    IN  IF slashes = {} THEN <<>>
        ELSE SubSeq(path, 1, (CHOOSE i \in slashes : \A j \in slashes : j <= i) - 1)

DirNode == [type |-> "dir", media |-> FALSE, tracks |-> "", atts |-> <<>>,
            title |-> <<>>, complete |-> TRUE, writable |-> TRUE]

MediaNode(tracks, atts, writable) ==
    [type |-> "file", media |-> TRUE, tracks |-> tracks, atts |-> atts,
     title |-> <<>>, complete |-> TRUE, writable |-> writable]

\* a file that is no container (text, or a truncated rendering)
PlainNode ==
    [type |-> "file", media |-> FALSE, tracks |-> "", atts |-> <<>>,
     title |-> <<>>, complete |-> TRUE, writable |-> TRUE]

\* os.path.isdir, os.path.isfile
IsDir(f, path) == path \in DOMAIN f /\ f[path].type = "dir"
IsFile(f, path) == path \in DOMAIN f /\ f[path].type = "file"

\* the names os.listdir(directory) returns (in some order)
ListDirSet(f, directory) ==
    {SubSeq(q, Len(directory) + 2, Len(q)) :
        q \in {r \in DOMAIN f : Len(r) > Len(directory) + 1
                               /\ Dirname(r) = directory}}

\* all orders of a finite set
Perms(S) ==
    {q \in [1..Cardinality(S) -> S] :
        \A i, j \in 1..Cardinality(S) : i # j => q[i] # q[j]}

\* the file system with path p written (created or replaced)
WriteFile(f, p, node) ==
    [q \in DOMAIN f \cup {p} |-> IF q = p THEN node ELSE f[q]]

\* the file system with path p removed
RemoveFile(f, p) == [q \in DOMAIN f \ {p} |-> f[q]]

(***************************************************************************)
(* mux_movie: the paths it derives and the container it describes          *)
(***************************************************************************)

CoverName == "cover.jpg"

Mkv == <<"m", "k", "v">>
DotMkv == <<".">> \o Mkv

\* line 249: '.'.join(full_file_name.split('.')[:-1])
BaseName(full_file_name) ==
    LET parts == SplitChar(full_file_name, ".")
    IN  Join(SubSeq(parts, 1, Len(parts) - 1), <<".">>)

\* the render target placed at the final path itself
MuxPathsInPlace(movie_file) ==
    LET full_file_name == LastSegment(movie_file)
        file_name == BaseName(full_file_name)
        file_directory == Dirname(movie_file)
    IN  [file_name |-> file_name,
         temp |-> PathJoin(file_directory, file_name \o DotMkv),
         final |-> PathJoin(file_directory, file_name \o DotMkv)]

\* the final name built from the full file name, extension not stripped
MuxPathsKeepExt(movie_file) ==
    LET full_file_name == LastSegment(movie_file)
        file_name == BaseName(full_file_name)
        file_directory == Dirname(movie_file)
        temp_file_name == <<"t", "e", "m", "p", "_">> \o file_name
    IN  [file_name |-> file_name,
         temp |-> PathJoin(file_directory, temp_file_name \o DotMkv),
         final |-> PathJoin(file_directory, full_file_name \o DotMkv)]

\* lines 248-252 and 271: the base name, the temporary path, the final path
MuxPaths(movie_file) ==
    LET full_file_name == LastSegment(movie_file)
        file_name == BaseName(full_file_name)
        file_directory == Dirname(movie_file)
        temp_file_name == <<"t", "e", "m", "p", "_">> \o file_name
    IN  [file_name |-> file_name,
         temp |-> PathJoin(file_directory, temp_file_name \o DotMkv),
         final |-> PathJoin(file_directory, file_name \o DotMkv)]

\* the attachments of the rendering when the source's own are kept
RenderedAttsKeepOld(src) == src.atts \o <<CoverName>>

\* lines 265-267: no_attachments() drops the source's attachments and
\* add_attachment() adds the cover under the name 'cover.jpg'
RenderedAtts(src) == <<CoverName>>

\* lines 253-268: the container mux() writes for a source node
Rendered(f, movie_file) ==
    [type |-> "file", media |-> TRUE, tracks |-> f[movie_file].tracks,
     atts |-> RenderedAtts(f[movie_file]),
     title |-> MuxPaths(movie_file).file_name,
     complete |-> TRUE, writable |-> TRUE]

\* what a failed mux() may leave at its output path
Partial ==
    [type |-> "file", media |-> FALSE, tracks |-> "",
     atts |-> <<>>, title |-> <<>>, complete |-> FALSE, writable |-> TRUE]

\* lines 253-263: the source can be loaded (an .mkv) or has a track 0 to add
Renderable(f, movie_file) == IsFile(f, movie_file) /\ f[movie_file].media

(***************************************************************************)
(* movie_poster_added: the probe                                           *)
(***************************************************************************)

\* mkvmerge --identify succeeds on containers only (check_output raises else)
Probeable(f, movie_file) == IsFile(f, movie_file) /\ f[movie_file].media

\* lines 235-238: some "Attachment ID" line names 'cover.jpg'
movie_poster_added(f, movie_file) ==
    \E i \in 1..Len(f[movie_file].atts) : f[movie_file].atts[i] = CoverName

(***************************************************************************)
(* The cover resolver and the provider chain                               *)
(*                                                                         *)
(* The poster directory is a function from poster file names to contents.  *)
(* The network is an oracle: the outcome of each request, the number of    *)
(* search queries that raise, and the results of the first search that     *)
(* does not.                                                               *)
(***************************************************************************)

Jpg == <<"j", "p", "g">>
Png == <<"p", "n", "g">>
Jpeg == <<"j", "p", "e", "g">>

\* line 171
supported_ext == <<Jpg, Png, Jpeg>>

\* lines 102-108: the number of query templates
NumQueries == 5

\* line 127: the least accepted height
MinHeight == 900

\* get_poster_filename(movie_name, movie_year, ext)
get_poster_filename(movie_name, movie_year, ext) ==
    Replace(movie_name, " ", "-") \o <<"-">> \o movie_year \o <<".">> \o ext

\* lines 75-77: the title as the direct URL spells it
DvdName(movie_name) ==
    LET n1 == Replace(movie_name, " ", "-")
        n2 == Join(SplitWs(n1), <<" ">>)
    IN  Join(SplitChar(n2, "-"), <<"-">>)

\* the outcomes of a provider: a poster path, None, or a raised exception
\* (err names it)
Found(path, P, G, reqs) ==
    [out |-> "path", err |-> "", path |-> path, posters |-> P, gis |-> G,
     reqs |-> reqs]
NotFound(P, G, reqs) ==
    [out |-> "none", err |-> "", path |-> <<>>, posters |-> P, gis |-> G,
     reqs |-> reqs]
Raised(err, P, G, reqs) ==
    [out |-> "raise", err |-> err, path |-> <<>>, posters |-> P, gis |-> G,
     reqs |-> reqs]

\* the bytes a successful direct request returns
DvdContent(which, name) == [src |-> which, q |-> name, w |-> 0, h |-> 0]

\* a provider that asks for the title-only URL whatever the first answer was
download_poster_from_dvdreleasedates_retrying(movie_name, movie_year, r1, r2, P, G) ==
    IF movie_name = <<>>
    THEN Raised("IndexError", P, G, <<>>)
    ELSE
    LET name == DvdName(movie_name)
        poster_name == get_poster_filename(name, movie_year, Jpg)
        second == IF r1 = "200" THEN "200" ELSE r2
    IN  IF r1 = "error" THEN Raised("RequestException", P, G, <<"url1">>)
        ELSE IF second = "error"
        THEN Raised("RequestException", P, G, <<"url1", "url2">>)
        ELSE IF second = "200"
        THEN Found(poster_name,
                   WriteFile(P, poster_name, DvdContent("url2", poster_name)),
                   G, <<"url1", "url2">>)
        ELSE NotFound(P, G, <<"url1", "url2">>)

\* download_poster_from_dvdreleasedates; r1, r2: "200", "404" or "error"
\* (requests.get raises)
download_poster_from_dvdreleasedates(movie_name, movie_year, r1, r2, P, G) ==
    IF movie_name = <<>>
    THEN Raised("IndexError", P, G, <<>>)         \* line 74: movie_name[0]
    ELSE
    LET name == DvdName(movie_name)
        poster_name == get_poster_filename(name, movie_year, Jpg)
    IN  IF r1 = "error" THEN Raised("RequestException", P, G, <<"url1">>)
        ELSE IF r1 = "200"
        THEN Found(poster_name,
                   WriteFile(P, poster_name, DvdContent("url1", poster_name)),
                   G, <<"url1">>)
        ELSE IF r2 = "error"
        THEN Raised("RequestException", P, G, <<"url1", "url2">>)
        ELSE IF r2 = "200"
        THEN Found(poster_name,
                   WriteFile(P, poster_name, DvdContent("url2", poster_name)),
                   G, <<"url1", "url2">>)
        ELSE NotFound(P, G, <<"url1", "url2">>)

\* the greatest power of two that is at most n
RECURSIVE Pow2Floor(_)
Pow2Floor(n) == IF n < 2 THEN 1 ELSE 2 * Pow2Floor(n \div 2)

\* line 127: h > 1.4*w, evaluated in double precision.  The literal 1.4 is
\* the double just below 7/5, so 1.4*w is 7w/5 - (2w/5)/2^52 rounded to the
\* nearest double.  Off the line 5h = 7w the rounding decides nothing.  On it
\* (w = 5k, h = 7k) the product rounds to h itself unless the deficit
\* 2k/2^52 exceeds half the spacing of doubles at h, 2^(e-53) with
\* 2^e <= h < 2^(e+1): then it rounds to the double below h and h > 1.4*w.
ExceedsRatio(w, h) ==
    IF 5 * h # 7 * w THEN 5 * h > 7 * w
    ELSE 4 * h > 7 * Pow2Floor(h)

\* the test without its second conjunct
AcceptableRatioOnly(img) == ExceedsRatio(img.w, img.h)

\* line 127: h > 1.4*w and h >= 900
Acceptable(img) == ExceedsRatio(img.w, img.h) /\ img.h >= MinHeight

\* lines 121-131: the first result that decodes and is acceptable, or 0
FirstAccepted(results) ==
    LET ok == {i \in 1..Len(results) :
                 results[i].decodes /\ Acceptable(results[i])}
    IN  IF ok = {} THEN 0 ELSE CHOOSE i \in ok : \A j \in ok : i <= j

\* the queries issued: those that raise, then the first that does not
QueryReqs(qfail) ==
    [i \in 1..(IF qfail < NumQueries THEN qfail + 1 ELSE NumQueries) |-> "query"]

\* download_poster_from_google_api; qfail: how many leading queries raise;
\* fresh: what the first successful search returns; G: what GIS holds from
\* the last search; clears: whether a search that raises has discarded what
\* GIS held (the search library decides; the code reads GIS.results() at
\* line 121 whether or not a search succeeded)
download_poster_from_google_api(movie_name, movie_year, qfail, clears, fresh, P, G, reqs) ==
    LET poster_name == get_poster_filename(movie_name, movie_year, Jpg)
        results == IF qfail < NumQueries
                   THEN [i \in 1..Len(fresh) |->
                            [decodes |-> fresh[i].decodes, w |-> fresh[i].w,
                             h |-> fresh[i].h, q |-> poster_name]]
                   ELSE IF clears THEN <<>> ELSE G
        k == FirstAccepted(results)
        rq == reqs \o QueryReqs(qfail)
    IN  IF k = 0 THEN NotFound(P, results, rq)
        ELSE Found(poster_name,
                   WriteFile(P, poster_name,
                             [src |-> "search", q |-> results[k].q,
                              w |-> results[k].w, h |-> results[k].h]),
                   results, rq)

\* the providers listed the other way round
download_poster_search_first(movie_name, movie_year, o, P, G) ==
    LET g == download_poster_from_google_api(movie_name, movie_year,
                                             o.qfail, o.clears, o.fresh,
                                             P, G, <<>>)
        d0 == download_poster_from_dvdreleasedates(movie_name, movie_year,
                                                   o.r1, o.r2,
                                                   g.posters, g.gis)
        d == [d0 EXCEPT !.reqs = g.reqs \o @]
    IN  IF g.out # "none" THEN g
        ELSE IF d.out # "none" THEN d
        ELSE Raised("NotImplementedError", d.posters, d.gis, d.reqs)

\* download_poster: the providers in order, NotImplementedError at the end
download_poster(movie_name, movie_year, o, P, G) ==
    LET d == download_poster_from_dvdreleasedates(movie_name, movie_year,
                                                  o.r1, o.r2, P, G)
        g == download_poster_from_google_api(movie_name, movie_year,
                                             o.qfail, o.clears, o.fresh,
                                             P, G, d.reqs)
    IN  IF d.out # "none" THEN d
        ELSE IF g.out # "none" THEN g
        ELSE Raised("NotImplementedError", g.posters, g.gis, g.reqs)

\* a lookup without the break of line 179: the last cached poster wins
CacheHitLast(movie_name, movie_year, P) ==
    LET hits == {i \in 1..Len(supported_ext) :
                   get_poster_filename(movie_name, movie_year, supported_ext[i])
                       \in DOMAIN P}
    IN  IF hits = {} THEN 0 ELSE CHOOSE i \in hits : \A j \in hits : j <= i

\* a lookup that finds nothing: poster_found is never set
CacheHitNever(movie_name, movie_year, P) == 0

\* lines 175-179: the first cached poster in the order jpg, png, jpeg, or 0
CacheHit(movie_name, movie_year, P) ==
    LET hits == {i \in 1..Len(supported_ext) :
                   get_poster_filename(movie_name, movie_year, supported_ext[i])
                       \in DOMAIN P}
    IN  IF hits = {} THEN 0 ELSE CHOOSE i \in hits : \A j \in hits : i <= j

\* get_movie_cover: the cached poster, else the provider chain
get_movie_cover(movie_name, movie_year, o, P, G) ==
    LET k == CacheHit(movie_name, movie_year, P)
    IN  IF k # 0
        THEN Found(get_poster_filename(movie_name, movie_year, supported_ext[k]),
                   P, G, <<>>)
        ELSE download_poster(movie_name, movie_year, o, P, G)

(***************************************************************************)
(* State                                                                   *)
(***************************************************************************)
VARIABLES
    pMode,      \* parser runs: "raw" (any name) or "form" (<title>-(YYYY).<ext>)
    pName,      \* raw mode: the file name given to the parser
    pTitle,     \* form mode: <title>
    pYear,      \* form mode: YYYY
    pExt,       \* form mode: <ext>
    pOut,       \* the parser's results so far (none before the call)
    fs,         \* the movies directory tree: path -> node
    fs0,        \* the tree as the run found it
    posters,    \* POSTER_DIR: poster file name -> content
    posterDir,  \* whether POSTER_DIR exists
    gis,        \* what GIS.results() holds (the module-level search object)
    force,      \* the --force flag
    stack,      \* the frames of traverse_movies_directory
    pc,         \* where the run is: the traversal, or a step of update_file
    cur,        \* the update_file call in progress, or the last one made
    log,        \* the update_file calls made, with their outcomes
    pass,       \* which traversal of the directory this is: 1 or 2
    firstLog,   \* the update_file calls of the first traversal, once it is over
    calls       \* resolver runs: the get_movie_cover calls made, with results

parseVars == <<pMode, pName, pTitle, pYear, pExt, pOut>>
runVars == <<fs, fs0, posters, posterDir, gis, force, stack, pc, cur, log,
             pass, firstLog>>
coverVars == <<calls>>

vars == <<parseVars, runVars, coverVars>>

(***************************************************************************)
(* The directory trees the run starts from                                 *)
(***************************************************************************)
MaxEntries == 2

\* the directory given on the command line
Root == <<"r">>

A_mkv == <<"A", "-", "(", "2", "0", "0", "0", ")", ".", "m", "k", "v">>                 \* A-(2000).mkv
SampleTrailer == <<"s", "a", "m", "p", "l", "e", "-", "t", "r", "a", "i", "l", "e", "r", ".", "m", "k", "v">>         \* sample-trailer.mkv
B_txt == <<"B", ".", "t", "x", "t">>                 \* B.txt
Movie_mkv == <<"m", "o", "v", "i", "e", ".", "m", "k", "v">>             \* movie.mkv
C_mp4 == <<"C", "-", "(", "2", "0", "0", "1", ")", ".", "m", "p", "4">>                 \* C-(2001).mp4
SubDir == <<"s">>              \* a directory: s
D_avi == <<"D", "-", "(", "1", "9", "9", "9", ")", ".", "a", "v", "i">>                 \* s/D-(1999).avi
E_avi_dir == <<"E", "-", "(", "2", "0", "0", "2", ")", ".", "a", "v", "i">>             \* a directory: E-(2002).avi
F_xmkv == <<"F", "-", "(", "2", "0", "0", "3", ")", ".", "x", "m", "k", "v">>                \* F-(2003).xmkv

PoolNames ==
    {A_mkv, SampleTrailer, B_txt, Movie_mkv, C_mp4, SubDir, E_avi_dir, F_xmkv}

\* entries that meet the paths mux_movie derives for C-(2001).mp4, and a
\* name that ends in a recognised suffix without a dot
C_mkv == <<"C", "-", "(", "2", "0", "0", "1", ")", ".", "m", "k", "v">>                 \* C-(2001).mkv
Temp_C_mkv == <<"t", "e", "m", "p", "_", "C", "-", "(", "2", "0", "0", "1", ")", ".", "m", "k", "v">>            \* temp_C-(2001).mkv
G_avi == <<"G", "-", "(", "2", "0", "0", "4", ")", "a", "v", "i">>                  \* G-(2004)avi

ClashPoolNames == {C_mp4, C_mkv, Temp_C_mkv, SubDir}
AgainPoolNames == {C_mp4, C_mkv, G_avi, SubDir}

\* the nodes an entry of the pool may start as
Variants(name) ==
    CASE name = A_mkv ->
            {MediaNode("A", <<>>, TRUE),
             MediaNode("A", <<CoverName>>, FALSE),
             MediaNode("A", <<"fanart.png", CoverName>>, TRUE)}
      [] name = SampleTrailer -> {MediaNode("S", <<>>, TRUE)}
      [] name = B_txt -> {PlainNode}
      [] name = Movie_mkv ->
            {MediaNode("M", <<CoverName>>, TRUE)}
      [] name = C_mp4 ->
            {MediaNode("C", <<>>, TRUE), MediaNode("C", <<CoverName>>, TRUE)}
      [] name = SubDir -> {DirNode}
      [] name = E_avi_dir -> {DirNode}
      [] name = F_xmkv -> {MediaNode("F", <<>>, TRUE)}
      [] name = C_mkv ->
            {MediaNode("K", <<>>, TRUE), MediaNode("K", <<CoverName>>, TRUE)}
      [] name = Temp_C_mkv -> {MediaNode("T", <<CoverName>>, TRUE)}
      [] name = G_avi -> {MediaNode("G", <<>>, TRUE)}

AllVariants ==
    UNION {Variants(n) : n \in PoolNames \cup ClashPoolNames \cup AgainPoolNames}

\* what a directory of the pool holds
Children(name) ==
    IF name = SubDir THEN {D_avi} ELSE {}

\* the tree with the chosen entries under Root
TreeOf(names, v) ==
    LET top == {PathJoin(Root, n) : n \in names}
        sub == UNION {{PathJoin(PathJoin(Root, n), c) : c \in Children(n)} :
                      n \in names}
    IN  [q \in {Root} \cup top \cup sub |->
            IF q = Root THEN DirNode
            ELSE IF q \in top THEN v[LastSegment(q)]
            ELSE MediaNode("D", <<>>, TRUE)]

\* the trees of at most size entries of a pool
TreesOver(pool, size) ==
    UNION {{TreeOf(names, v) :
                v \in {w \in [names -> AllVariants] :
                          \A n \in names : w[n] \in Variants(n)}} :
           names \in {ns \in SUBSET pool : Cardinality(ns) <= size}}

InitialTrees == TreesOver(PoolNames, MaxEntries)

\* a poster the user placed in POSTER_DIR: A-2000.png
UserPoster == <<"A", "-", "2", "0", "0", "0", ".", "p", "n", "g">>
EmptyDir == [q \in {} |-> PlainNode]
InitialPosters ==
    {EmptyDir,
     [q \in {UserPoster} |-> [src |-> "user", q |-> UserPoster, w |-> 0, h |-> 0]]}

(***************************************************************************)
(* The network oracle                                                      *)
(***************************************************************************)
MaxResults == 1

\* an image line 127 accepts and one it rejects
Images ==
    {[decodes |-> TRUE, w |-> 600, h |-> 900],
     [decodes |-> TRUE, w |-> 1000, h |-> 1400]}

StatusCodes == {"200", "404", "error"}

\* how many leading queries raise: none, or all
QueryFailures == {0, NumQueries}

\* one oracle per distinguishable run of the chain: what is not asked is "404"
Oracles ==
    {o \in [r1 : StatusCodes, r2 : StatusCodes, qfail : QueryFailures,
            clears : BOOLEAN, fresh : BoundedSeq(Images, MaxResults)] :
        /\ o.r1 # "404" => o.r2 = "404"
        /\ (o.r1 # "404" \/ o.r2 # "404") => (o.qfail = 0 /\ o.fresh = <<>>)
        /\ o.qfail = NumQueries => o.fresh = <<>>
        /\ o.qfail < NumQueries => ~o.clears}

NoNetwork ==
    [r1 |-> "404", r2 |-> "404", qfail |-> 0, clears |-> FALSE, fresh |-> <<>>]

(***************************************************************************)
(* traverse_movies_directory and update_file                               *)
(***************************************************************************)

\* line 27
VALID_VIDEO_FORMAT ==
    <<Mkv, <<"m", "p", "4">>, <<"a", "v", "i">>>>

Sample == <<"s", "a", "m", "p", "l", "e">>

\* line 326: the entries the loop does not skip
Wanted(file) ==
    /\ \E i \in 1..Len(VALID_VIDEO_FORMAT) : EndsWith(file, VALID_VIDEO_FORMAT[i])
    /\ ~Contains(Lower(file), Sample)

\* a caller that passes --force on whether or not the probe found a cover
NeedsUpdateAlways(added, f) == TRUE

\* line 300: not movie_poster_added(movie_file) or force
NeedsUpdate(added, f) == ~added \/ f

\* no handler: the exception leaves update_file
ExceptClauseAbsent == "propagate"

\* lines 305-306: except Exception: log the failure and return
ExceptClause == "log"

\* delete the source first, render afterwards
MuxOrderDeleteFirst == <<"chmod", "remove", "render", "rename">>

\* lines 268-271: mux, chmod, remove, rename
MuxOrder == <<"render", "chmod", "remove", "rename">>

\* the step after a step of mux_movie, "end" after the last
AfterStep(step) ==
    LET i == CHOOSE k \in 1..Len(MuxOrder) : MuxOrder[k] = step
    IN  IF i = Len(MuxOrder) THEN "end" ELSE MuxOrder[i + 1]

NoCall ==
    [directory |-> <<>>, file |-> <<>>, movie_file |-> <<>>, states |-> <<>>,
     failedAt |-> "", invoked |-> {}, steps |-> <<>>, reqs |-> <<>>,
     key |-> ParseError,
     cover |-> <<>>, fsAtCall |-> EmptyDir, postersAtCall |-> EmptyDir,
     posterDirAtCall |-> FALSE]

Top == stack[Len(stack)]
TopFile == Top.files[Top.idx]

\* a loop of line 322 that has no entry left returns to its caller, which
\* is at line 326 of the directory entry it recursed into
RECURSIVE Unwind(_)
Unwind(st) ==
    IF st = <<>> THEN st
    ELSE IF st[Len(st)].idx > Len(st[Len(st)].files)
    THEN Unwind(SubSeq(st, 1, Len(st) - 1))
    ELSE st

\* the loop of line 322 moves to its next entry
Advance(st) ==
    Unwind([st EXCEPT ![Len(st)].idx = @ + 1, ![Len(st)].stage = "isdir"])

\* the traversal goes on, or main() is done
AfterLoop(st) == IF st = <<>> THEN "done" ELSE "traverse"

SetLast(l, outcome, failedAt) ==
    [l EXCEPT ![Len(l)].outcome = outcome, ![Len(l)].failedAt = failedAt]

\* update_file returns: the call's last state, and the loop goes on
Finish(c, outcome) ==
    /\ cur' = [c EXCEPT !.states = @ \o <<outcome>>]
    /\ log' = SetLast(log, outcome, "")
    /\ pc' = AfterLoop(Advance(stack))
    /\ stack' = Advance(stack)

\* an exception raised at a step of update_file reaches line 305
Fail(c, step) ==
    IF ExceptClause = "log"
    THEN /\ cur' = [c EXCEPT !.states = @ \o <<"Failed">>, !.failedAt = step]
         /\ log' = SetLast(log, "Failed", step)
         /\ pc' = AfterLoop(Advance(stack))
         /\ stack' = Advance(stack)
    ELSE /\ cur' = [c EXCEPT !.failedAt = step]
         /\ log' = SetLast(log, "Raised", step)
         /\ pc' = "aborted"
         /\ stack' = <<>>

\* no parser run of its own: the parser is used by update_file
ParseOff ==
    /\ pMode = "off" /\ pName = <<>> /\ pTitle = <<>>
    /\ pYear = <<>> /\ pExt = <<>> /\ pOut = <<>>

\* main() has found a directory and traverse_movies_directory has listed it
RunInit ==
    /\ fs \in InitialTrees
    /\ fs0 = fs
    /\ posters \in InitialPosters
    /\ posterDir = (posters # EmptyDir)
    /\ gis = <<>>
    /\ force \in BOOLEAN
    /\ stack \in {Unwind(<<[dir |-> Root, files |-> fl, idx |-> 1,
                              stage |-> "isdir"]>>) :
                     fl \in Perms(ListDirSet(fs, Root))}
    /\ pc = AfterLoop(stack)
    /\ cur = NoCall
    /\ log = <<>>
    /\ pass = 1
    /\ firstLog = <<>>

\* no resolver run of its own: the resolver is used by update_file
CoverOff == calls = <<>>

Init == ParseOff /\ CoverOff /\ RunInit

\* lines 323-325: the entry is a directory; recurse into it
EnterDirectory ==
    /\ pc = "traverse" /\ stack # <<>>
    /\ Top.idx <= Len(Top.files)
    /\ Top.stage = "isdir"
    /\ IsDir(fs, PathJoin(Top.dir, TopFile))
    /\ \E fl \in Perms(ListDirSet(fs, PathJoin(Top.dir, TopFile))) :
          stack' = Unwind([stack EXCEPT ![Len(stack)].stage = "filter"]
                          \o <<[dir |-> PathJoin(Top.dir, TopFile),
                                files |-> fl, idx |-> 1, stage |-> "isdir"]>>)
    /\ UNCHANGED <<fs, fs0, posters, posterDir, gis, force, pc, cur, log>>
    /\ UNCHANGED <<pass, firstLog, parseVars, coverVars>>

\* the entry has passed line 324 (no directory, or the recursion is back)
AtFilter ==
    /\ pc = "traverse" /\ stack # <<>>
    /\ Top.idx <= Len(Top.files)
    /\ Top.stage = "filter" \/ ~IsDir(fs, PathJoin(Top.dir, TopFile))

\* lines 326-327: continue
SkipEntry ==
    /\ AtFilter
    /\ ~Wanted(TopFile)
    /\ stack' = Advance(stack)
    /\ pc' = AfterLoop(Advance(stack))
    /\ UNCHANGED <<fs, fs0, posters, posterDir, gis, force, cur, log>>
    /\ UNCHANGED <<pass, firstLog, parseVars, coverVars>>

\* line 328: update_file(directory, file, force) is called
StartUpdate ==
    /\ AtFilter
    /\ Wanted(TopFile)
    /\ cur' = [NoCall EXCEPT !.directory = Top.dir, !.file = TopFile,
                             !.movie_file = PathJoin(Top.dir, TopFile),
                             !.fsAtCall = fs, !.postersAtCall = posters,
                             !.posterDirAtCall = posterDir]
    /\ log' = Append(log, [directory |-> Top.dir, file |-> TopFile,
                           outcome |-> "Running", failedAt |-> "",
                           wasFile |-> IsFile(fs, PathJoin(Top.dir, TopFile))])
    /\ pc' = "parse"
    /\ UNCHANGED <<fs, fs0, posters, posterDir, gis, force, stack>>
    /\ UNCHANGED <<pass, firstLog, parseVars, coverVars>>

\* line 296: parse the file name
UpdateParse ==
    /\ pc = "parse"
    /\ LET k == get_movie_name_and_year(cur.file)
       IN  IF k.ok
           THEN /\ cur' = [cur EXCEPT !.key = k, !.states = <<"Parsed">>]
                /\ pc' = "probe"
                /\ UNCHANGED <<log, stack>>
           ELSE Fail(cur, "parse")
    /\ UNCHANGED <<fs, fs0, posters, posterDir, gis, force>>
    /\ UNCHANGED <<pass, firstLog, parseVars, coverVars>>

\* line 300: probe the container, then skip or go on to update
UpdateProbe ==
    /\ pc = "probe"
    /\ \/ /\ Probeable(fs, cur.movie_file)
          /\ IF NeedsUpdate(movie_poster_added(fs, cur.movie_file), force)
             THEN /\ cur' = [cur EXCEPT !.states = @ \o <<"Updating">>]
                  /\ pc' = "resolve"
                  /\ UNCHANGED <<log, stack>>
             ELSE Finish(cur, "Skipped")
       \/ Fail(cur, "probe")
    /\ UNCHANGED <<fs, fs0, posters, posterDir, gis, force>>
    /\ UNCHANGED <<pass, firstLog, parseVars, coverVars>>

\* lines 282-284: update_movie_cover parses the path, resolves the cover
\* (creating POSTER_DIR if it is missing) and calls mux_movie
UpdateResolve ==
    /\ pc = "resolve"
    /\ LET k == get_movie_name_and_year(cur.movie_file)
           hit == CacheHit(k.title, k.year, posters) # 0
       IN  IF ~k.ok
           THEN /\ Fail(cur, "resolve")
                /\ UNCHANGED <<posters, posterDir, gis>>
           ELSE \E o \in (IF hit THEN {NoNetwork} ELSE Oracles) :
                  LET r == get_movie_cover(k.title, k.year, o, posters, gis)
                      c == [cur EXCEPT
                              !.invoked = @ \cup {"resolver"}
                                            \cup (IF hit THEN {} ELSE {"chain"}),
                              !.reqs = r.reqs,
                              !.cover = r.path]
                  IN  /\ posterDir' = TRUE
                      /\ posters' = r.posters
                      /\ gis' = r.gis
                      /\ IF r.out = "raise"
                         THEN Fail(c, "resolve")
                         ELSE /\ cur' = [c EXCEPT !.invoked = @ \cup {"mutator"}]
                              /\ pc' = MuxOrder[1]
                              /\ UNCHANGED <<log, stack>>
    /\ UNCHANGED <<fs, fs0, force>>
    /\ UNCHANGED <<pass, firstLog, parseVars, coverVars>>

\* a step of mux_movie has returned: the next step, or update_file is done
Proceed(step) ==
    LET c == [cur EXCEPT !.steps = @ \o <<step>>]
    IN  IF AfterStep(step) = "end"
        THEN Finish(c, "Updated")
        ELSE /\ pc' = AfterStep(step)
             /\ cur' = c
             /\ UNCHANGED <<log, stack>>

\* lines 253-268: describe the container and render it to the temporary path;
\* a failed mkvmerge raises and may leave a truncated output behind
MuxRender ==
    /\ pc = "render"
    /\ LET mp == MuxPaths(cur.movie_file)
       IN  \/ /\ Renderable(fs, cur.movie_file)
              /\ ~IsDir(fs, mp.temp)
              /\ fs' = WriteFile(fs, mp.temp, Rendered(fs, cur.movie_file))
              /\ Proceed("render")
           \/ /\ \E leaves \in BOOLEAN :
                    fs' = IF leaves /\ ~IsDir(fs, mp.temp)
                          THEN WriteFile(fs, mp.temp, Partial)
                          ELSE fs
              /\ Fail(cur, "render")
    /\ UNCHANGED <<fs0, posters, posterDir, gis, force>>
    /\ UNCHANGED <<pass, firstLog, parseVars, coverVars>>

\* line 269: os.chmod(movie_file, stat.S_IWRITE)
MuxChmod ==
    /\ pc = "chmod"
    /\ \/ /\ cur.movie_file \in DOMAIN fs
          /\ fs' = [fs EXCEPT ![cur.movie_file].writable = TRUE]
          /\ Proceed("chmod")
       \/ /\ UNCHANGED fs
          /\ Fail(cur, "chmod")
    /\ UNCHANGED <<fs0, posters, posterDir, gis, force>>
    /\ UNCHANGED <<pass, firstLog, parseVars, coverVars>>

\* line 270: os.remove(movie_file)
MuxRemove ==
    /\ pc = "remove"
    /\ \/ /\ IsFile(fs, cur.movie_file)
          /\ fs' = RemoveFile(fs, cur.movie_file)
          /\ Proceed("remove")
       \/ /\ UNCHANGED fs
          /\ Fail(cur, "remove")
    /\ UNCHANGED <<fs0, posters, posterDir, gis, force>>
    /\ UNCHANGED <<pass, firstLog, parseVars, coverVars>>

\* line 271: os.rename(temp_file_path, <directory>/<file_name>.mkv); an
\* existing file at the target is replaced (POSIX) or the call fails (Windows)
MuxRename ==
    /\ pc = "rename"
    /\ LET mp == MuxPaths(cur.movie_file)
       IN  \/ /\ IsFile(fs, mp.temp)
              /\ ~IsDir(fs, mp.final)
              /\ fs' = IF mp.temp = mp.final THEN fs
                        ELSE RemoveFile(WriteFile(fs, mp.final, fs[mp.temp]),
                                        mp.temp)
              /\ Proceed("rename")
           \/ /\ UNCHANGED fs
              /\ Fail(cur, "rename")
    /\ UNCHANGED <<fs0, posters, posterDir, gis, force>>
    /\ UNCHANGED <<pass, firstLog, parseVars, coverVars>>

Next ==
    \/ EnterDirectory
    \/ SkipEntry
    \/ StartUpdate
    \/ UpdateParse
    \/ UpdateProbe
    \/ UpdateResolve
    \/ MuxRender
    \/ MuxChmod
    \/ MuxRemove
    \/ MuxRename

Spec == Init /\ [][Next]_vars

(***************************************************************************)
(* The program run over directories in which the paths mux_movie derives   *)
(* for one file are the paths of other files                               *)
(***************************************************************************)
ClashInit ==
    /\ ParseOff /\ CoverOff
    /\ fs \in TreesOver(ClashPoolNames, MaxEntries)
    /\ fs0 = fs
    /\ posters = EmptyDir
    /\ posterDir \in BOOLEAN
    /\ gis = <<>>
    /\ force \in BOOLEAN
    /\ stack \in {Unwind(<<[dir |-> Root, files |-> fl, idx |-> 1,
                              stage |-> "isdir"]>>) :
                     fl \in Perms(ListDirSet(fs, Root))}
    /\ pc = AfterLoop(stack)
    /\ cur = NoCall
    /\ log = <<>>
    /\ pass = 1
    /\ firstLog = <<>>

SpecClash == ClashInit /\ [][Next]_vars

(***************************************************************************)
(* The program run twice over the same directory, the second time without  *)
(* --force                                                                 *)
(***************************************************************************)
MaxAgainEntries == 1

AgainInit ==
    /\ ParseOff /\ CoverOff
    /\ fs \in TreesOver(AgainPoolNames, MaxAgainEntries)
    /\ fs0 = fs
    /\ posters = EmptyDir
    /\ posterDir = FALSE
    /\ gis = <<>>
    /\ force \in BOOLEAN
    /\ stack \in {Unwind(<<[dir |-> Root, files |-> fl, idx |-> 1,
                              stage |-> "isdir"]>>) :
                     fl \in Perms(ListDirSet(fs, Root))}
    /\ pc = AfterLoop(stack)
    /\ cur = NoCall
    /\ log = <<>>
    /\ pass = 1
    /\ firstLog = <<>>

\* main() is run again on the directory as the first run left it: a new
\* process (GIS is new), the same POSTER_DIR, force = False
RunAgain ==
    /\ pc = "done" /\ pass = 1
    /\ pass' = 2
    /\ firstLog' = log
    /\ force' = FALSE
    /\ gis' = <<>>
    /\ fs0' = fs
    /\ \E fl \in Perms(ListDirSet(fs, Root)) :
          stack' = Unwind(<<[dir |-> Root, files |-> fl, idx |-> 1,
                             stage |-> "isdir"]>>)
    /\ pc' = AfterLoop(stack')
    /\ cur' = NoCall
    /\ UNCHANGED <<fs, posters, posterDir, log>>
    /\ UNCHANGED <<parseVars, coverVars>>

AgainNext ==
    \/ EnterDirectory
    \/ SkipEntry
    \/ StartUpdate
    \/ UpdateParse
    \/ UpdateProbe
    \/ UpdateResolve
    \/ MuxRender
    \/ MuxChmod
    \/ MuxRemove
    \/ MuxRename
    \/ RunAgain

SpecAgain == AgainInit /\ [][AgainNext]_vars

\* no run of the program: the parser alone
RunOff ==
    /\ fs = EmptyDir /\ fs0 = EmptyDir
    /\ posters = EmptyDir /\ posterDir = FALSE
    /\ gis = <<>> /\ force = FALSE /\ stack = <<>>
    /\ pc = "off" /\ cur = NoCall /\ log = <<>>
    /\ pass = 1 /\ firstLog = <<>>

(***************************************************************************)
(* The parser on bounded inputs                                            *)
(***************************************************************************)
MaxNameLen == 6
MaxTitleLen == 4

RawAlphabet == {"a", "1", ".", "-", "(", ")"}
TitleAlphabet == {"a", "1", ".", "-", "(", ")", " ", "_"}

TheMatrix == <<"T", "h", "e", ".", "M", "a", "t", "r", "i", "x">>
BladeRunner == <<"B", "l", "a", "d", "e", ".", "2", "0", "4", "9">>

RawNames == BoundedSeq(RawAlphabet, MaxNameLen)
Titles == BoundedSeq(TitleAlphabet, MaxTitleLen) \cup {TheMatrix, BladeRunner}
Years == {<<"1", "9", "9", "9">>, <<"2", "0", "1", "7">>}
Exts == {<<"m", "k", "v">>, <<"m", "p", "4">>}

\* <title>-(YYYY).<ext>
ParenForm(t, y, e) == t \o <<"-", "(">> \o y \o <<")", ".">> \o e
\* <title>-YYYY.<ext>
BareForm(t, y, e) == t \o <<"-">> \o y \o <<".">> \o e

ParseInit ==
    /\ RunOff
    /\ CoverOff
    /\ pOut = <<>>
    /\ \/ /\ pMode = "raw"
          /\ pName \in RawNames
          /\ pTitle = <<>> /\ pYear = <<>> /\ pExt = <<>>
       \/ /\ pMode = "form"
          /\ pName = <<>>
          /\ pTitle \in Titles /\ pYear \in Years /\ pExt \in Exts

\* one call of the parser on a raw name
ParseName ==
    /\ pMode = "raw" /\ pOut = <<>>
    /\ pOut' = <<get_movie_name_and_year(pName)>>
    /\ UNCHANGED <<pMode, pName, pTitle, pYear, pExt>>
    /\ UNCHANGED <<runVars, coverVars>>

\* the parser on both forms of one (title, year, ext)
ParseForms ==
    /\ pMode = "form" /\ pOut = <<>>
    /\ pOut' = <<get_movie_name_and_year(ParenForm(pTitle, pYear, pExt)),
                 get_movie_name_and_year(BareForm(pTitle, pYear, pExt))>>
    /\ UNCHANGED <<pMode, pName, pTitle, pYear, pExt>>
    /\ UNCHANGED <<runVars, coverVars>>

ParseNext == ParseName \/ ParseForms

SpecParse == ParseInit /\ [][ParseNext]_vars

(***************************************************************************)
(* The resolver on its own: get_movie_cover called for one key after       *)
(* another, as update_movie_cover calls it for one file after another      *)
(***************************************************************************)
MaxCalls == 2
MaxListed == 2

\* keys as get_movie_name_and_year returns them
KeyA == [title |-> <<"A">>, year |-> <<"2", "0", "0", "0">>]
KeyBb == [title |-> <<"B", " ", "b">>, year |-> <<"2", "0", "0", "1">>]
\* the key of a name such as "(1999).mkv": an empty title
KeyNoTitle == [title |-> <<>>, year |-> <<"1", "9", "9", "9">>]
CoverKeys == {KeyA, KeyBb, KeyNoTitle}

\* posters the user may have placed in POSTER_DIR for the key A, 2000
UserPosterNames ==
    {get_poster_filename(KeyA.title, KeyA.year, supported_ext[i]) :
        i \in 1..Len(supported_ext)}
UserContent(name) == [src |-> "user", q |-> name, w |-> 0, h |-> 0]
CoverInitialPosters ==
    {[q \in names |-> UserContent(q)] : names \in SUBSET UserPosterNames}

\* what a search may list: an image line 127 accepts, the two of the line
\* 5h = 7w (the one the double product leaves on it and the one it rounds
\* below it), one too short, one too wide, and one that does not decode
CoverImages ==
    {[decodes |-> TRUE, w |-> 600, h |-> 900],
     [decodes |-> TRUE, w |-> 1000, h |-> 1400],
     [decodes |-> TRUE, w |-> 650, h |-> 910],
     [decodes |-> TRUE, w |-> 500, h |-> 800],
     [decodes |-> TRUE, w |-> 900, h |-> 1000],
     [decodes |-> FALSE, w |-> 0, h |-> 0]}

\* how many leading queries raise: none, some, or all
CoverQueryFailures == {0, 2, NumQueries}

CoverOracles ==
    {o \in [r1 : StatusCodes, r2 : StatusCodes, qfail : CoverQueryFailures,
            clears : BOOLEAN, fresh : BoundedSeq(CoverImages, MaxListed)] :
        /\ o.r1 # "404" => o.r2 = "404"
        /\ (o.r1 # "404" \/ o.r2 # "404") => (o.qfail = 0 /\ o.fresh = <<>>)
        /\ o.qfail = NumQueries => o.fresh = <<>>
        /\ o.qfail < NumQueries => ~o.clears}

CoverInit ==
    /\ ParseOff
    /\ fs = EmptyDir /\ fs0 = EmptyDir
    /\ force = FALSE /\ stack = <<>>
    /\ cur = NoCall /\ log = <<>>
    /\ pass = 1 /\ firstLog = <<>>
    /\ pc = "cover"
    /\ posters \in CoverInitialPosters
    /\ posterDir \in (IF posters = EmptyDir THEN BOOLEAN ELSE {TRUE})
    /\ gis = <<>>
    /\ calls = <<>>

\* one call of get_movie_cover(movie_name, movie_year)
Resolve ==
    /\ pc = "cover"
    /\ Len(calls) < MaxCalls
    /\ \E key \in CoverKeys :
         LET hit == CacheHit(key.title, key.year, posters)
             \* line 74 raises on an empty title before any request is made
             asks == hit = 0 /\ key.title # <<>>
         IN  \E o \in (IF asks THEN CoverOracles ELSE {NoNetwork}) :
               LET r == get_movie_cover(key.title, key.year, o, posters, gis)
               IN  /\ posterDir' = TRUE
                   /\ posters' = r.posters
                   /\ gis' = r.gis
                   /\ calls' = Append(calls,
                         [key |-> key, o |-> o, hit |-> hit,
                          out |-> r.out, err |-> r.err, path |-> r.path,
                          reqs |-> r.reqs, before |-> posters,
                          gisBefore |-> gis, after |-> r.posters])
    /\ UNCHANGED <<fs, fs0, force, stack, pc, cur, log, pass, firstLog>>
    /\ UNCHANGED parseVars

CoverNext == Resolve

SpecCover == CoverInit /\ [][CoverNext]_vars

(***************************************************************************)
(* Claims about the run (checked under Spec)                               *)
(***************************************************************************)

\* update_file has been called; the call has returned
Called == cur.file # <<>>
Ended == Called /\ pc \in {"traverse", "done"}
Outcome == cur.states[Len(cur.states)]

\* mux_movie has been called in the current update_file call
MuxCalled == "mutator" \in cur.invoked

\* the source as the call found it, and the paths mux_movie derives
SourceAtCall == cur.fsAtCall[cur.movie_file]
TempPath == MuxPaths(cur.movie_file).temp
FinalPath == MuxPaths(cur.movie_file).final

\* the source file is at its path with the content the call found
SourceUnchanged ==
    /\ cur.movie_file \in DOMAIN fs
    /\ fs[cur.movie_file] = SourceAtCall

\* the same, its permission bits aside (line 269 makes it writable)
SourcePresent ==
    /\ cur.movie_file \in DOMAIN fs
    /\ [fs[cur.movie_file] EXCEPT !.writable = SourceAtCall.writable]
           = SourceAtCall

\* the complete rendering of the source with the cover
Replacement == Rendered(cur.fsAtCall, cur.movie_file)

ReplacementAt(path) == path \in DOMAIN fs /\ fs[path] = Replacement

\* the path holds what it held when the call was made (nothing, or the same)
SameAsAtCall(path) ==
    /\ path \in DOMAIN fs <=> path \in DOMAIN cur.fsAtCall
    /\ path \in DOMAIN fs => fs[path] = cur.fsAtCall[path]

\* C1: if the render step fails, the source is still at its path with
\* unchanged content (neither deleted nor renamed) and nothing has been
\* placed at the final path.
C1_RenderFailureLeavesSource ==
    (Ended /\ cur.failedAt = "render") =>
        /\ SourceUnchanged
        /\ SameAsAtCall(FinalPath)
        /\ cur.steps = <<>>

\* a render of a good container has failed and left a truncated temporary
C1_Witness ==
    /\ Ended /\ cur.failedAt = "render"
    /\ cur.file = A_mkv
    /\ TempPath \in DOMAIN fs /\ ~fs[TempPath].complete
    /\ SourceUnchanged

\* position of a step among the steps mux_movie has completed, 0 if absent
StepIndex(step) ==
    IF \E i \in 1..Len(cur.steps) : cur.steps[i] = step
    THEN CHOOSE i \in 1..Len(cur.steps) : cur.steps[i] = step
    ELSE 0

\* C2: at every point during and after a mux call, whatever step fails,
\* the source is still at its path or a complete rendering is on disk; the
\* source is deleted only after the render has succeeded, and the rename
\* happens only after the delete.
C2_SourceOrReplacement ==
    MuxCalled =>
        /\ SourcePresent \/ ReplacementAt(TempPath) \/ ReplacementAt(FinalPath)
        /\ StepIndex("remove") # 0 =>
              (StepIndex("render") # 0 /\ StepIndex("render") < StepIndex("remove"))
        /\ StepIndex("rename") # 0 =>
              (StepIndex("remove") # 0 /\ StepIndex("remove") < StepIndex("rename"))
        /\ ~SourcePresent => StepIndex("remove") # 0

\* the source is gone, the rename has failed, the rendering is at the
\* temporary path
C2_Witness ==
    /\ Ended /\ cur.failedAt = "rename"
    /\ cur.movie_file \notin DOMAIN fs
    /\ ReplacementAt(TempPath)

\* C3 as stated: after a successful mux of a file of any recognised kind
\* the rendering is at the path the caller passed in, and the temporary
\* file no longer exists.
C3_RenderingAtSourcePath ==
    (Ended /\ Outcome = "Updated") =>
        /\ ReplacementAt(cur.movie_file)
        /\ TempPath \notin DOMAIN fs

\* C3 amended: after a successful mux the rendering is in the source's
\* directory under the source's base name with the extension mkv, which is
\* the path the caller passed in exactly for an .mkv source; the path of a
\* source of another kind no longer exists; the temporary file no longer
\* exists.
C3_RenderingAtMkvPath ==
    (Ended /\ Outcome = "Updated") =>
        /\ ReplacementAt(FinalPath)
        /\ FinalPath = PathJoin(cur.directory, BaseName(cur.file) \o DotMkv)
        /\ EndsWith(cur.file, DotMkv) => FinalPath = cur.movie_file
        /\ ~EndsWith(cur.file, DotMkv) =>
              (FinalPath # cur.movie_file /\ cur.movie_file \notin DOMAIN fs)
        /\ TempPath \notin DOMAIN fs

\* an .mp4 source has been replaced by an .mkv rendering
C3_Witness ==
    /\ Ended /\ Outcome = "Updated"
    /\ cur.file = C_mp4
    /\ ReplacementAt(FinalPath)
    /\ cur.movie_file \notin DOMAIN fs

\* the file carried an attachment with the canonical name at the call
HadCover ==
    /\ IsFile(cur.fsAtCall, cur.movie_file)
    /\ movie_poster_added(cur.fsAtCall, cur.movie_file)

\* no file or directory created, changed, deleted or renamed since the call
NoWrites ==
    /\ fs = cur.fsAtCall
    /\ posters = cur.postersAtCall
    /\ posterDir = cur.posterDirAtCall

\* C4 as stated: update_file on a file that carries the canonical
\* attachment, with force = false, ends in Skipped, invokes neither the
\* resolver, the provider chain nor the mutator, and writes nothing.
C4_CoveredFileSkipped ==
    (Called /\ HadCover /\ ~force) =>
        /\ NoWrites
        /\ cur.invoked = {}
        /\ Ended => Outcome = "Skipped"

\* C4 amended: such a call invokes neither the resolver, the provider chain
\* nor the mutator and writes nothing; it ends in Skipped whenever the file
\* name parses and the probe returns, and in Failed otherwise.
C4_CoveredFileSkippedIfParsedAndProbed ==
    (Called /\ HadCover /\ ~force) =>
        /\ NoWrites
        /\ cur.invoked = {}
        /\ Ended =>
              \/ Outcome = "Skipped"
              \/ Outcome = "Failed" /\ cur.failedAt \in {"parse", "probe"}
        /\ (Ended /\ cur.failedAt = "") => Outcome = "Skipped"

\* A-(2000).mkv with its cover has been skipped
C4_Witness ==
    /\ Ended /\ HadCover /\ ~force
    /\ cur.file = A_mkv
    /\ Outcome = "Skipped"
    /\ NoWrites

InStates(st) == \E i \in 1..Len(cur.states) : cur.states[i] = st

\* C5 as stated: update_file with force = true on a file that carries the
\* canonical attachment is not skipped but goes through Updating, and when
\* it ends in Updated the resulting file has exactly one attachment, of
\* the canonical name.
C5_ForcedGoesThroughUpdating ==
    (Ended /\ HadCover /\ force) =>
        /\ ~InStates("Skipped")
        /\ InStates("Updating")
        /\ Outcome = "Updated" => fs[FinalPath].atts = <<CoverName>>

\* C5 amended: such a call is never skipped; it goes through Updating
\* whenever the file name parses and the probe returns; and when it ends in
\* Updated the resulting file has exactly one attachment, of the canonical
\* name, however many the file had before.
C5_ForcedNeverSkipped ==
    (Ended /\ HadCover /\ force) =>
        /\ ~InStates("Skipped")
        /\ cur.failedAt \notin {"parse", "probe"} => InStates("Updating")
        /\ Outcome = "Updated" =>
              (FinalPath \in DOMAIN fs /\ fs[FinalPath].atts = <<CoverName>>)

\* a file with two attachments has been updated under force
C5_Witness ==
    /\ Ended /\ HadCover /\ force
    /\ Len(SourceAtCall.atts) = 2
    /\ Outcome = "Updated"
    /\ cur.states = <<"Parsed", "Updating", "Updated">>
    /\ fs[FinalPath].atts = <<CoverName>>

\* the calls the loop makes on the tree the run started from
ExpectedCalls ==
    {[directory |-> Dirname(q), file |-> LastSegment(q)] :
        q \in {r \in DOMAIN fs0 \ {Root} : Wanted(LastSegment(r))}}

LoggedCalls ==
    {[directory |-> log[i].directory, file |-> log[i].file] :
        i \in 1..Len(log)}

\* C6: whatever error is raised while a file is processed, update_file
\* ends in Failed for that file, raises nothing, and the traversal
\* processes every remaining file; each visited file ends in exactly one of
\* Skipped, Updated, Failed.
C6_FailureIsPerFile ==
    /\ pc # "aborted"
    /\ \A i \in 1..Len(log) :
          \/ log[i].outcome \in {"Skipped", "Updated", "Failed"}
          \/ /\ i = Len(log)
             /\ log[i].outcome = "Running"
             /\ pc \notin {"traverse", "done"}
    /\ \A i \in 1..Len(log) :
          (log[i].failedAt # "") <=> (log[i].outcome = "Failed")
    /\ pc = "done" =>
          /\ LoggedCalls = ExpectedCalls
          /\ Len(log) = Cardinality(ExpectedCalls)

\* a failed file has been followed by an updated one
C6_Witness ==
    /\ pc = "done"
    /\ Len(log) = 2
    /\ log[1].outcome = "Failed" /\ log[1].failedAt = "render"
    /\ log[2].outcome = "Updated"

\* the extension of a file name: what follows its last dot
Ext(file) ==
    LET parts == SplitChar(file, ".")
    IN  IF Len(parts) = 1 THEN <<>> ELSE parts[Len(parts)]

Recognized == {VALID_VIDEO_FORMAT[i] : i \in 1..Len(VALID_VIDEO_FORMAT)}

\* a file with a recognised extension and no sample marker in its name
IsWantedFile(f, path) ==
    /\ IsFile(f, path)
    /\ Ext(LastSegment(path)) \in Recognized
    /\ ~Contains(Lower(LastSegment(path)), Sample)

\* C7: the traversal calls update_file exactly on the entries that are
\* files, have a recognised extension and no sample marker in their name;
\* never on a directory, on another extension or on a sample.
C7_ExactlyWantedFiles ==
    /\ \A i \in 1..Len(log) :
          /\ log[i].wasFile
          /\ Ext(log[i].file) \in Recognized
          /\ ~Contains(Lower(log[i].file), Sample)
    /\ pc = "done" =>
          \A q \in DOMAIN fs0 :
              IsWantedFile(fs0, q) =>
                  [directory |-> Dirname(q), file |-> LastSegment(q)]
                      \in LoggedCalls

(***************************************************************************)
(* Claims about the parser (checked under SpecParse)                       *)
(***************************************************************************)

\* the name contains a run of four consecutive digits
HasFourDigitRun(s) ==
    \E i \in 1..(Len(s) - 3) : \A k \in 0..3 : s[i + k] \in Digits

\* positions (1-based) of the parenthesized year tokens and of the bare runs
ParenTokens(s) ==
    {i \in 1..(Len(s) - 5) :
        /\ s[i] = "(" /\ s[i + 5] = ")"
        /\ \A k \in 1..4 : s[i + k] \in Digits}
BareRuns(s) ==
    {i \in 1..(Len(s) - 3) : \A k \in 0..3 : s[i + k] \in Digits}
Least(S) == CHOOSE i \in S : \A j \in S : i <= j

\* the located year token: the first parenthesized year, else the first run
LocatedYear(s) ==
    IF ParenTokens(s) # {}
    THEN SubSeq(s, Least(ParenTokens(s)) + 1, Least(ParenTokens(s)) + 4)
    ELSE SubSeq(s, Least(BareRuns(s)), Least(BareRuns(s)) + 3)

\* the only four-digit token is bare and opens the name
BareRunOpensName(s) ==
    /\ ParenTokens(s) = {}
    /\ BareRuns(s) # {}
    /\ Least(BareRuns(s)) = 1

RawParsed == pMode = "raw" /\ pOut # <<>>

\* C8 as stated: the parser fails with the format error if and only if the
\* name contains no run of four digits, and for every name with such a run,
\* wherever it is, the returned year is the located four-digit token.
C8_FailsIffNoRun ==
    RawParsed =>
        /\ (~pOut[1].ok) <=> ~HasFourDigitRun(pName)
        /\ HasFourDigitRun(pName) => pOut[1].year = LocatedYear(pName)

\* C8 amended: the parser fails with the format error if and only if the name
\* contains no run of four digits, or it has no parenthesized year and its
\* first four-digit run starts at the first character of the name; in every
\* other case the returned year is the located four-digit token.
C8_FailsIffNoRunOrRunOpensName ==
    RawParsed =>
        /\ (~pOut[1].ok) <=>
              (~HasFourDigitRun(pName) \/ BareRunOpensName(pName))
        /\ pOut[1].ok => pOut[1].year = LocatedYear(pName)

\* a name whose four-digit run is not at the start has been parsed
C8_Witness ==
    /\ RawParsed
    /\ HasFourDigitRun(pName)
    /\ ~BareRunOpensName(pName)
    /\ pOut[1].ok
    /\ pOut[1].year = LocatedYear(pName)

\* a title in normal form: no punctuation, no hyphen, no repeated, leading
\* or trailing whitespace
IsNormalTitle(t) ==
    /\ \A i \in 1..Len(t) : t[i] \notin punctuation
    /\ \A i \in 1..(Len(t) - 1) : ~(t[i] = " " /\ t[i + 1] = " ")
    /\ t # <<>> => (t[1] # " " /\ t[Len(t)] # " ")

IsFourDigits(y) == Len(y) = 4 /\ \A i \in 1..4 : y[i] \in Digits

\* C9: every key the parser returns has a title that is non-empty and in
\* normal form, and a year of exactly four digits.
C9_KeyInvariant ==
    (RawParsed /\ pOut[1].ok) =>
        /\ pOut[1].title # <<>>
        /\ IsNormalTitle(pOut[1].title)
        /\ IsFourDigits(pOut[1].year)

FormParsed == pMode = "form" /\ pOut # <<>>

ExpectedKey == [ok |-> TRUE, title |-> NormalizeTitle(pTitle), year |-> pYear]

\* C10 as stated: for every <title>, both forms give the same pair, with
\* year YYYY and the normalised <title>.
C10_BothFormsSameKey ==
    FormParsed =>
        /\ pOut[1] = pOut[2]
        /\ pOut[1] = ExpectedKey

\* C10 amended: for every <title> that contains no run of four consecutive
\* digits, both forms give the same pair, with year YYYY and the normalised
\* <title>, whatever punctuation or dots <title> holds.
C10_BothFormsSameKeyNoDigitRun ==
    (FormParsed /\ ~HasFourDigitRun(pTitle)) =>
        /\ pOut[1] = pOut[2]
        /\ pOut[1] = ExpectedKey

\* "The.Matrix-(1999).mkv" and "The.Matrix-1999.mkv" have been parsed
C10_Witness ==
    /\ FormParsed
    /\ pTitle = TheMatrix
    /\ pYear = <<"1", "9", "9", "9">>
    /\ pOut[1] = [ok |-> TRUE,
                  title |-> <<"T", "h", "e", " ", "M", "a", "t", "r", "i", "x">>,
                  year |-> <<"1", "9", "9", "9">>]
    /\ pOut[2] = pOut[1]

(***************************************************************************)
(* Claims about the resolver (checked under SpecCover)                     *)
(***************************************************************************)

\* the canonical cache name of a key
Canonical(key) == get_poster_filename(key.title, key.year, Jpg)

\* the call was answered by a provider; it issued a search query
ViaProvider(c) == c.hit = 0 /\ c.out = "path"
Searched(c) == \E i \in 1..Len(c.reqs) : c.reqs[i] = "query"

\* C11: once a key has been resolved through a provider (either one), a
\* later resolution of the same key returns the asset the provider cached,
\* at the canonical cache path, without invoking a provider and without a
\* network request.
C11_SecondResolutionIsCached ==
    \A i, j \in 1..Len(calls) :
        (i < j /\ calls[i].key = calls[j].key /\ ViaProvider(calls[i])) =>
            /\ calls[j].out = "path"
            /\ calls[j].path = Canonical(calls[j].key)
            /\ calls[j].hit # 0
            /\ calls[j].reqs = <<>>
            /\ calls[j].after = calls[j].before
            /\ calls[j].before[calls[j].path] = calls[i].after[calls[i].path]

\* the key B b, 2001 was resolved by the search provider and resolved again
C11_Witness ==
    /\ Len(calls) = 2
    /\ calls[1].key = KeyBb /\ calls[2].key = KeyBb
    /\ ViaProvider(calls[1]) /\ Searched(calls[1])
    /\ calls[2].path = <<"B", "-", "b", "-", "2", "0", "0", "1", ".", "j", "p", "g">>

\* a request of the direct-URL provider ended in a transport failure
DirectTransportFailure(c) ==
    c.hit = 0 /\ (c.o.r1 = "error" \/ (c.o.r1 = "404" /\ c.o.r2 = "error"))

\* C12: a transport or decode failure of one request, query or search
\* result never aborts the provider chain: it counts as that candidate not
\* found, the next candidate or provider is still tried, and the resolution
\* fails only when every provider has been exhausted.
C12_FailuresNeverAbortChain ==
    \A i \in 1..Len(calls) :
        /\ calls[i].out = "raise" => calls[i].err = "NotImplementedError"
        /\ DirectTransportFailure(calls[i]) => Searched(calls[i])

\* the cached posters the search provider saved
SearchSaved == {n \in DOMAIN posters : posters[n].src = "search"}

\* the image is at least 1.4 times as high as wide, and at least 900 high
MeetsBounds(img) == 5 * img.h >= 7 * img.w /\ img.h >= MinHeight

\* C13: every asset the chain returns by way of the search provider comes
\* from an image with height >= 1.4 x width and height >= 900, and no image
\* failing either bound is ever saved to the cache by that provider.
C13_SearchAssetsMeetBounds ==
    /\ \A n \in SearchSaved : MeetsBounds(posters[n])
    /\ \A i \in 1..Len(calls) :
          (ViaProvider(calls[i]) /\ Searched(calls[i])) =>
              /\ calls[i].path \in DOMAIN calls[i].after
              /\ calls[i].after[calls[i].path].src = "search"
              /\ MeetsBounds(calls[i].after[calls[i].path])

\* a search listed an image that is too short and then one that is
\* acceptable, and the provider returned the second
C13_Witness ==
    /\ Len(calls) >= 1
    /\ calls[1].o.fresh = <<[decodes |-> TRUE, w |-> 500, h |-> 800],
                            [decodes |-> TRUE, w |-> 600, h |-> 900]>>
    /\ ViaProvider(calls[1]) /\ Searched(calls[1])
    /\ calls[1].after[calls[1].path].h = 900

\* what the direct-URL provider reported, by the answers to its requests
DirectFound(c) == c.o.r1 = "200" \/ (c.o.r1 = "404" /\ c.o.r2 = "200")
DirectNotFound(c) == c.o.r1 = "404" /\ c.o.r2 = "404"

\* every request of the direct-URL provider precedes every search query
DirectBeforeSearch(c) ==
    \A a, b \in 1..Len(c.reqs) :
        (a < b /\ c.reqs[a] = "query") => c.reqs[b] = "query"

\* C14: the chain tries the direct-URL provider first and invokes the
\* search provider only after the direct-URL provider reported not found; it
\* returns the asset of the first provider that succeeds without invoking a
\* later one; it fails with the resolution error exactly when every
\* provider reported not found.
C14_ProvidersInOrder ==
    \A i \in 1..Len(calls) :
        LET c == calls[i]
        IN  c.hit = 0 =>
              /\ c.reqs # <<>> => c.reqs[1] = "url1"
              /\ c.reqs = <<>> => (c.out = "raise" /\ c.err = "IndexError")
              /\ DirectBeforeSearch(c)
              /\ Searched(c) => (DirectNotFound(c) /\ c.reqs[2] = "url2")
              /\ (DirectFound(c) /\ c.reqs # <<>>) =>
                    /\ c.out = "path" /\ ~Searched(c)
                    /\ c.after[c.path].src \in {"url1", "url2"}
              /\ (c.out = "raise" /\ c.err = "NotImplementedError")
                    <=> (DirectNotFound(c) /\ Searched(c)
                         /\ c.after = c.before)

\* the direct-URL provider reported not found and the search provider found
\* a poster; in another call both reported not found
C14_Witness ==
    /\ Len(calls) = 2
    /\ calls[1].reqs = <<"url1", "url2", "query">>
    /\ calls[1].out = "path"
    /\ calls[1].after[calls[1].path].src = "search"
    /\ calls[2].key # calls[1].key
    /\ calls[2].out = "raise" /\ calls[2].err = "NotImplementedError"

\* C15: the images the search provider evaluates for a key are results of a
\* query issued for that key in the same call; when all five queries raise,
\* the provider evaluates nothing and reports not found, so no result of a
\* search made for an earlier file is saved under the current key's name.
C15_OnlyOwnResults ==
    /\ \A n \in SearchSaved : posters[n].q = n
    /\ \A i \in 1..Len(calls) :
          (calls[i].hit = 0 /\ calls[i].o.qfail = NumQueries) =>
              /\ calls[i].out # "path"
              /\ calls[i].after = calls[i].before

\* the results of a call's own search that decode and meet both bounds
Qualifying(c) ==
    {k \in 1..Len(c.o.fresh) : c.o.fresh[k].decodes /\ MeetsBounds(c.o.fresh[k])}

\* the call ran a search of its own (some query did not raise)
OwnSearch(c) == c.hit = 0 /\ Searched(c) /\ c.o.qfail < NumQueries

\* C16: the search provider scans the result list in order, skips results
\* that do not decode, and accepts the first result with height >= 1.4 x
\* width and height >= 900, the case height = 1.4 x width included; it
\* reports not found only if no result meets the bounds.
C16_FirstQualifyingAccepted ==
    \A i \in 1..Len(calls) :
        LET c == calls[i]
            first == CHOOSE k \in Qualifying(c) : \A j \in Qualifying(c) : k <= j
        IN  OwnSearch(c) =>
              IF Qualifying(c) = {}
              THEN c.out # "path"
              ELSE /\ c.out = "path"
                   /\ c.after[c.path].src = "search"
                   /\ c.after[c.path].w = c.o.fresh[first].w
                   /\ c.after[c.path].h = c.o.fresh[first].h

\* the requests of the direct-URL provider in a call, in order
DirectReqs(c) == SelectSeq(c.reqs, LAMBDA r : r # "query")

\* the cached posters the direct-URL provider wrote in a call
DirectWrites(c) ==
    {n \in DOMAIN c.after :
        /\ c.after[n].src \in {"url1", "url2"}
        /\ (n \notin DOMAIN c.before \/ c.before[n] # c.after[n])}

\* C17: the direct-URL provider issues at most two requests per call, the
\* title+year URL first and the title-only URL only if the first returned a
\* status other than success, never after a successful first one; on
\* success of either it writes the response to the canonical cache path of
\* the key and returns that path; it writes nothing when both fail.
C17_DirectProviderRequests ==
    \A i \in 1..Len(calls) :
        LET c == calls[i]
            urls == DirectReqs(c)
        IN  c.hit = 0 =>
              /\ Len(urls) <= 2
              /\ Len(urls) >= 1 => urls[1] = "url1"
              /\ Len(urls) = 2 => (urls[2] = "url2" /\ c.o.r1 = "404")
              /\ c.o.r1 = "200" => urls = <<"url1">>
              /\ (DirectFound(c) /\ urls # <<>>) =>
                    /\ c.out = "path"
                    /\ c.path = Canonical(c.key)
                    /\ DirectWrites(c) = {c.path}
                    /\ c.after[c.path] =
                          DvdContent(urls[Len(urls)], Canonical(c.key))
                    /\ \A n \in DOMAIN c.before \ {c.path} :
                          n \in DOMAIN c.after /\ c.after[n] = c.before[n]
              /\ ~DirectFound(c) => DirectWrites(c) = {}

\* the title+year URL of the key B b, 2001 was answered 404 and the
\* title-only URL 200: the response is cached as B-b-2001.jpg
C17_Witness ==
    /\ Len(calls) >= 1
    /\ calls[1].key = KeyBb
    /\ calls[1].reqs = <<"url1", "url2">>
    /\ calls[1].out = "path"
    /\ calls[1].path = <<"B", "-", "b", "-", "2", "0", "0", "1", ".", "j", "p", "g">>
    /\ posters[calls[1].path].src = "url2"

\* the cache names of a key in the order of line 171
CacheNames(key) ==
    [k \in 1..Len(supported_ext) |->
        get_poster_filename(key.title, key.year, supported_ext[k])]

\* C18: get_movie_cover returns the first existing cache file of the key in
\* the order jpg, png, jpeg; the provider chain is invoked if and only if
\* none of the three exists, and at most once in a call.
C18_CacheInPriorityOrder ==
    \A i \in 1..Len(calls) :
        LET c == calls[i]
            names == CacheNames(c.key)
            cached == {k \in 1..Len(names) : names[k] \in DOMAIN c.before}
            chain == c.reqs # <<>> \/ c.out = "raise"
        IN  /\ cached # {} =>
                /\ c.out = "path"
                /\ c.path \in DOMAIN c.before
                /\ \E k \in cached : c.path = names[k] /\ \A j \in cached : k <= j
                /\ c.after = c.before
            /\ chain <=> cached = {}
            /\ Len(DirectReqs(c)) <= 2
            /\ Len(SelectSeq(c.reqs, LAMBDA r : r = "query")) <= NumQueries

\* with A-2000.png and A-2000.jpeg in the cache and no A-2000.jpg, the
\* resolver returned A-2000.png and made no request
C18_Witness ==
    /\ Len(calls) >= 1
    /\ calls[1].key = KeyA
    /\ DOMAIN calls[1].before =
          {<<"A", "-", "2", "0", "0", "0", ".", "p", "n", "g">>,
           <<"A", "-", "2", "0", "0", "0", ".", "j", "p", "e", "g">>}
    /\ calls[1].path = <<"A", "-", "2", "0", "0", "0", ".", "p", "n", "g">>
    /\ calls[1].reqs = <<>>

(***************************************************************************)
(* Claims about other files and about a second run (checked under          *)
(* SpecClash and SpecAgain)                                                *)
(***************************************************************************)

\* the files and directories the call found, the source aside
OthersAtCall == DOMAIN cur.fsAtCall \ {cur.movie_file}

\* C19: processing one media file leaves every other file of the directory
\* as it was: the source and a temporary file that did not exist before the
\* call aside, no file that existed is overwritten, deleted or renamed, a
\* file named temp_<base>.mkv or (for a source that is no .mkv) <base>.mkv
\* included.
C19_OtherFilesUntouched ==
    Called =>
        \A p \in OthersAtCall : p \in DOMAIN fs /\ fs[p] = cur.fsAtCall[p]

\* the files the first traversal left where it ended a call in Updated
UpdatedResults ==
    {MuxPaths(PathJoin(firstLog[i].directory, firstLog[i].file)).final :
        i \in {k \in 1..Len(firstLog) : firstLog[k].outcome = "Updated"}}

\* C20: processing is idempotent under force = false: once a file has ended
\* in Updated, a second traversal of the same directory with force = false
\* ends in Skipped for the resulting file and changes nothing on disk.
C20_SecondRunSkips ==
    (pass = 2 /\ Called /\ cur.movie_file \in UpdatedResults) =>
        /\ NoWrites
        /\ Ended => Outcome = "Skipped"

====
